---- MODULE Spec2Model ----
(***************************************************************************)
(* Anchor: the contract-enforcement layer around the two LLM stages.       *)
(*   src/helper_functions/funcs.py  fence stripping, parse-and-validate,   *)
(*                                  the repair request                     *)
(*   src/schemas/routing.py         RoutingResult, RoutingHints            *)
(*   src/schemas/planning.py        Action, PlanResult                     *)
(*   src/llm/router.py              route_user_request                     *)
(*   src/llm/planning.py            enforce_policy, plan_user_request      *)
(*                                                                         *)
(* A text is a record [chars, doc]: chars is the sequence of characters,   *)
(* where the character "D" stands for the serialisation of one JSON        *)
(* document and doc is the value that document decodes to.  The other      *)
(* characters are the backtick ("bt"), the blank, the newline, a letter    *)
(* ("j", as in a language tag) and "x" (bytes that are not JSON).          *)
(***************************************************************************)
EXTENDS Integers, Sequences, FiniteSets, TLC

VARIABLES entry, pc, max_repair_attempts, routing_json, routing, shape, raw,
          stripped, repaired, sent, attempts, n_calls, validated,
          backend_failed, plan_in, plan, result, result2, err

vars == <<entry, pc, max_repair_attempts, routing_json, routing, shape, raw,
          stripped, repaired, sent, attempts, n_calls, validated,
          backend_failed, plan_in, plan, result, result2, err>>

----------------------------------------------------------------------------
(* Bounds of the model *)

MaxRepair == 2
MaxInner == 3
MaxActions == 2

----------------------------------------------------------------------------
(* Strings: str.strip, str.startswith, str.split *)

BT == "bt"
SP == " "
NL == "\n"
Whitespace == {SP, NL}
FENCE == <<BT, BT, BT>>

NoDoc == [null |-> TRUE]
Text(c, d) == [chars |-> c, doc |-> d]

RECURSIVE LStrip(_)
LStrip(c) ==
    IF c # <<>> /\ Head(c) \in Whitespace THEN LStrip(Tail(c)) ELSE c

RECURSIVE RStrip(_)
RStrip(c) ==
    IF c # <<>> /\ c[Len(c)] \in Whitespace
    THEN RStrip(SubSeq(c, 1, Len(c) - 1))
    ELSE c

Strip(c) == RStrip(LStrip(c))

StartsWithFence(c) == Len(c) >= 3 /\ SubSeq(c, 1, 3) = FENCE

FenceAt(c, k) == k + 2 <= Len(c) /\ SubSeq(c, k, k + 2) = FENCE

HasFence(c) == \E k \in 1..Len(c) : FenceAt(c, k)

FirstFence(c) == CHOOSE k \in 1..Len(c) :
    FenceAt(c, k) /\ \A m \in 1..(k - 1) : ~FenceAt(c, m)

RECURSIVE SplitFence(_)
SplitFence(c) ==
    IF ~HasFence(c) THEN <<c>>
    ELSE LET k == FirstFence(c)
         IN  <<SubSeq(c, 1, k - 1)>> \o SplitFence(SubSeq(c, k + 3, Len(c)))

(* len(parts) >= 2 always holds once the text starts with a fence *)
_strip_code_fences(s) ==
    LET c == Strip(s.chars)
        parts == SplitFence(c)
    IN  IF StartsWithFence(c) /\ Len(parts) >= 2
        THEN Text(Strip(parts[2]), s.doc)
        ELSE Text(c, s.doc)

(* json.loads: leading and trailing whitespace is skipped, then exactly   *)
(* one JSON value must make up the whole text.                             *)
json_loads(s) ==
    IF Strip(s.chars) = <<"D">>
    THEN [ok |-> TRUE, data |-> s.doc]
    ELSE [ok |-> FALSE, error |-> "JSONDecodeError"]

----------------------------------------------------------------------------
(* Schemas: a JSON object is a record, an absent key an absent field *)

Domain == {"reminders", "mail", "files", "browser", "system", "unknown"}
Risk == {"low", "medium", "high"}
PreferName == {"shortcuts", "browser", "files_api"}
MailDefault == {"draft", "send"}
ToolName == {"shortcuts.run", "browser.run", "files.apply",
             "system.open_app", "pause_for_user"}

Has(d, k) == k \in DOMAIN d
Get(d, k, default) == IF Has(d, k) THEN d[k] ELSE default
Elems(q) == {q[k] : k \in 1..Len(q)}

RoutingHintsDefault ==
    [prefer |-> <<>>, mail_default |-> "None", require_confirmation |-> TRUE]

RoutingHintsValid(h) ==
    /\ Elems(Get(h, "prefer", <<>>)) \subseteq PreferName
    /\ Get(h, "mail_default", "None") \in MailDefault \cup {"None"}

RoutingHints(h) ==
    [prefer |-> Get(h, "prefer", <<>>),
     mail_default |-> Get(h, "mail_default", "None"),
     require_confirmation |-> Get(h, "require_confirmation", TRUE)]

(* a domains field without min_length = 1 *)
DomainsValid_no_min(ds) == Elems(ds) \subseteq Domain


DomainsValid(ds) == Len(ds) >= 1 /\ Elems(ds) \subseteq Domain

RoutingResultValid(d) ==
    /\ Has(d, "domains") /\ DomainsValid(d.domains)
    /\ Has(d, "risk") /\ d.risk \in Risk
    /\ Has(d, "needs_clarification")
    /\ Has(d, "hints") => RoutingHintsValid(d.hints)

RoutingResult(d) ==
    [domains |-> d.domains,
     risk |-> d.risk,
     needs_clarification |-> d.needs_clarification,
     questions |-> Get(d, "questions", <<>>),
     hints |-> IF Has(d, "hints") THEN RoutingHints(d.hints)
               ELSE RoutingHintsDefault]

ActionValid(a) ==
    /\ Has(a, "tool") /\ a.tool \in ToolName
    /\ Has(a, "args")

Action(a) ==
    [tool |-> a.tool, args |-> a.args,
     needs_confirmation |-> Get(a, "needs_confirmation", TRUE)]

PlanResultValid(d) ==
    /\ Has(d, "explanation")
    /\ \A k \in 1..Len(Get(d, "actions", <<>>)) : ActionValid(d.actions[k])

PlanResult(d) ==
    [explanation |-> d.explanation,
     actions |-> [k \in 1..Len(Get(d, "actions", <<>>)) |-> Action(d.actions[k])],
     questions |-> Get(d, "questions", <<>>)]

(* schema.model_validate *)
model_validate(data, schema) ==
    IF schema = "RoutingResult"
    THEN IF RoutingResultValid(data)
         THEN [ok |-> TRUE, value |-> RoutingResult(data)]
         ELSE [ok |-> FALSE, error |-> "ValidationError"]
    ELSE IF PlanResultValid(data)
         THEN [ok |-> TRUE, value |-> PlanResult(data)]
         ELSE [ok |-> FALSE, error |-> "ValidationError"]

_parse_and_validate(s, schema) ==
    LET loaded == json_loads(_strip_code_fences(s))
    IN  IF loaded.ok THEN model_validate(loaded.data, schema) ELSE loaded

_try_parse_routing(s) == _parse_and_validate(s, "RoutingResult")

_try_parse_plan(s) == _parse_and_validate(s, "PlanResult")

----------------------------------------------------------------------------
(* Deterministic policy enforcement *)

NeedInfoExplanation == "I need a bit more information before I can plan this."
DefaultQuestion == "Could you clarify what you want to do?"

(* a policy that forgets the medium risk level *)
must_confirm_high_only(r) ==
    r.risk = "high" \/ r.hints.require_confirmation


must_confirm(r) ==
    r.risk \in {"medium", "high"} \/ r.hints.require_confirmation

(* a pass that flips the flags instead of setting them *)
ForceConfirmation_toggle(p) ==
    [p EXCEPT !.actions =
        [k \in 1..Len(p.actions) |->
            [p.actions[k] EXCEPT
                !.needs_confirmation = ~p.actions[k].needs_confirmation]]]


ForceConfirmation(p) ==
    [p EXCEPT !.actions =
        [k \in 1..Len(p.actions) |->
            [p.actions[k] EXCEPT !.needs_confirmation = TRUE]]]

(* a pass that forces confirmation whatever the risk and the hints say *)
enforce_policy_always_forces(p, r) ==
    IF r.needs_clarification
    THEN [explanation |-> NeedInfoExplanation,
          actions |-> <<>>,
          questions |-> IF r.questions # <<>> THEN r.questions
                        ELSE <<DefaultQuestion>>]
    ELSE ForceConfirmation(p)

(* a clarification branch without the default question *)
enforce_policy_no_default(p, r) ==
    IF r.needs_clarification
    THEN [explanation |-> NeedInfoExplanation,
          actions |-> <<>>,
          questions |-> r.questions]
    ELSE IF must_confirm(r) THEN ForceConfirmation(p) ELSE p


enforce_policy(p, r) ==
    IF r.needs_clarification
    THEN [explanation |-> NeedInfoExplanation,
          actions |-> <<>>,
          questions |-> IF r.questions # <<>> THEN r.questions
                        ELSE <<DefaultQuestion>>]
    ELSE IF must_confirm(r) THEN ForceConfirmation(p) ELSE p

(* an early return that keeps only the first question *)
ShortCircuitPlan_first_only(r) ==
    [explanation |-> NeedInfoExplanation,
     actions |-> <<>>,
     questions |-> IF r.questions = <<>> THEN <<>>
                   ELSE <<r.questions[1]>>]


(* plan_user_request's early return when the router asks for clarification *)
ShortCircuitPlan(r) ==
    [explanation |-> NeedInfoExplanation,
     actions |-> <<>>,
     questions |-> r.questions]

----------------------------------------------------------------------------
(* The hard-coded fallbacks *)

(* a fallback that asks nothing and lets low-risk planning go on *)
RoutingFallback_proceeds ==
    [domains |-> <<"unknown">>,
     risk |-> "low",
     needs_clarification |-> FALSE,
     questions |-> <<>>,
     hints |-> [prefer |-> <<"shortcuts">>, mail_default |-> "draft",
                require_confirmation |-> TRUE]]


RoutingFallback ==
    [domains |-> <<"unknown">>,
     risk |-> "medium",
     needs_clarification |-> TRUE,
     questions |-> <<"I'm not sure what you want to do. Could you rephrase in one sentence?">>,
     hints |-> [prefer |-> <<"shortcuts">>, mail_default |-> "draft",
                require_confirmation |-> TRUE]]

PlanFallback ==
    [explanation |-> "I couldn't safely create a plan. Please rephrase your request.",
     actions |-> <<>>,
     questions |-> <<"What would you like me to do? Please include any important details like time, person, or file name.">>]

----------------------------------------------------------------------------
(* Inputs: what the callers pass and what the backend may answer *)

SeqsUpTo(S, n) == UNION {[1..k -> S] : k \in 0..n}

(* JSON documents of the routing stage *)
RD_ok ==
    [domains |-> <<"reminders">>, risk |-> "low",
     needs_clarification |-> FALSE, questions |-> <<>>,
     hints |-> [prefer |-> <<"shortcuts">>, mail_default |-> "None",
                require_confirmation |-> TRUE]]
RD_clarify ==
    [domains |-> <<"mail">>, risk |-> "medium",
     needs_clarification |-> TRUE, questions |-> <<"Which John?">>]
RD_multi ==
    [domains |-> <<"files", "mail">>, risk |-> "high",
     needs_clarification |-> FALSE,
     hints |-> [require_confirmation |-> FALSE]]
RD_nodomains ==
    [domains |-> <<>>, risk |-> "low", needs_clarification |-> FALSE]
RD_baddomain ==
    [domains |-> <<"files", "calendar">>, risk |-> "low",
     needs_clarification |-> FALSE]
RD_badrisk ==
    [domains |-> <<"files">>, risk |-> "critical",
     needs_clarification |-> FALSE]
RD_missing == [domains |-> <<"files">>, risk |-> "low"]

RouterDocs == {RD_ok, RD_clarify, RD_multi, RD_nodomains, RD_baddomain,
               RD_badrisk, RD_missing, NoDoc}

(* JSON documents of the planning stage *)
A_shortcut ==
    [tool |-> "shortcuts.run", args |-> [name |-> "Create Reminder"],
     needs_confirmation |-> FALSE]
A_files ==
    [tool |-> "files.apply", args |-> [name |-> "move"],
     needs_confirmation |-> TRUE]
A_default == [tool |-> "pause_for_user", args |-> [name |-> "login"]]
A_badtool ==
    [tool |-> "shell.exec", args |-> [name |-> "rm"],
     needs_confirmation |-> FALSE]
A_noargs == [tool |-> "browser.run", needs_confirmation |-> FALSE]

PD_two ==
    [explanation |-> "Plan", actions |-> <<A_shortcut, A_files>>,
     questions |-> <<>>]
PD_default == [explanation |-> "Plan", actions |-> <<A_default>>]
PD_ask ==
    [explanation |-> "Plan", actions |-> <<>>, questions |-> <<"Which file?">>]
PD_badtool == [explanation |-> "Plan", actions |-> <<A_shortcut, A_badtool>>]
PD_noargs == [explanation |-> "Plan", actions |-> <<A_noargs>>]
PD_noexplanation == [actions |-> <<A_shortcut>>]

PlanDocs == {PD_two, PD_default, PD_ask, PD_badtool, PD_noargs,
             PD_noexplanation, NoDoc}

(* How the backend may dress a document, and texts that hold none *)
Wrappings(d) ==
    {Text(<<"D">>, d),
     Text(<<NL, "D", NL>>, d),
     Text(FENCE \o <<NL, "D", NL>> \o FENCE, d),
     Text(FENCE \o <<"j", NL, "D", NL>> \o FENCE, d)}

Garbage == {Text(<<>>, NoDoc), Text(<<"x">>, NoDoc), Text(<<"x", "D">>, NoDoc)}

Responses(docs) == UNION {Wrappings(d) : d \in docs} \cup Garbage

RouterResponses == Responses(RouterDocs)
PlanResponses == Responses(PlanDocs)

(* routing_json as callers of plan_user_request may pass it *)
RoutingJsonInputs ==
    {[domains |-> ds, risk |-> rk, needs_clarification |-> nc,
      questions |-> q, hints |-> [require_confirmation |-> rc]] :
        ds \in {<<>>, <<"files">>}, rk \in Risk \cup {"critical"},
        nc \in BOOLEAN, q \in {<<>>, <<"Which file?", "Where to?">>},
        rc \in BOOLEAN}
    \cup {[domains |-> <<"files">>, risk |-> rk, needs_clarification |-> nc] :
        rk \in Risk, nc \in BOOLEAN}
    \cup {RD_missing}

(* validated values as callers of enforce_policy may pass them *)
TypedActions ==
    [tool : {"shortcuts.run", "files.apply"}, args : {[name |-> "a"]},
     needs_confirmation : BOOLEAN]

TypedPlans ==
    [explanation : {"Plan"}, actions : SeqsUpTo(TypedActions, MaxActions),
     questions : {<<>>, <<"Which file?">>}]

TypedRoutings ==
    [domains : {<<"files">>}, risk : Risk, needs_clarification : BOOLEAN,
     questions : {<<>>, <<"Which file?", "Where to?">>},
     hints : [prefer : {<<>>}, mail_default : {"None"},
              require_confirmation : BOOLEAN]]

(* texts handed to _parse_and_validate directly *)
InnerChars == {SP, NL, BT, "j", "x", "D"}
Tags == {<<>>, <<"j">>}

Shapes ==
    [fenced : BOOLEAN, tag : Tags, padded : BOOLEAN,
     inner : SeqsUpTo(InnerChars, MaxInner), doc : {RD_ok, RD_nodomains}]

NoShape ==
    [fenced |-> FALSE, tag |-> <<>>, padded |-> FALSE, inner |-> <<>>,
     doc |-> NoDoc]

Pad(sh) == IF sh.padded THEN <<SP, NL>> ELSE <<>>

Opening(sh) == FENCE \o sh.tag \o (IF sh.tag # <<>> THEN <<NL>> ELSE <<>>)

Compose(sh) ==
    Text(Pad(sh)
           \o (IF sh.fenced THEN Opening(sh) \o sh.inner \o FENCE
               ELSE sh.inner)
           \o Pad(sh),
         sh.doc)

NoText == Text(<<>>, NoDoc)

----------------------------------------------------------------------------
(* State after the call is made and before its first statement runs *)

Entries == {"route_user_request", "plan_user_request", "enforce_policy",
            "_parse_and_validate"}

Init ==
    /\ entry \in Entries
    /\ pc = "start"
    /\ max_repair_attempts \in
         IF entry \in {"route_user_request", "plan_user_request"}
         THEN 0..MaxRepair ELSE {0}
    /\ routing_json \in
         IF entry = "plan_user_request" THEN RoutingJsonInputs ELSE {NoDoc}
    /\ routing \in IF entry = "enforce_policy" THEN TypedRoutings ELSE {NoDoc}
    /\ plan \in IF entry = "enforce_policy" THEN TypedPlans ELSE {NoDoc}
    /\ shape \in
         IF entry = "_parse_and_validate"
         THEN {sh \in Shapes : sh.fenced \/ sh.tag = <<>>}
         ELSE {NoShape}
    /\ raw = Compose(shape)
    /\ stripped = NoText
    /\ repaired = NoText
    /\ sent = NoText
    /\ attempts = 0
    /\ n_calls = 0
    /\ validated = FALSE
    /\ backend_failed = FALSE
    /\ plan_in = plan
    /\ result = NoDoc
    /\ result2 = NoDoc
    /\ err = "None"

----------------------------------------------------------------------------
(* for _ in range(max_repair_attempts): whether iteration number i + 1 runs *)

(* a loop that runs once too often *)
InRange_inclusive(i, n) == i <= n


InRange(i, n) == i < n

----------------------------------------------------------------------------
(* route_user_request *)

(* ollama.generate answers with a text *)
RouteGenerate ==
    /\ entry = "route_user_request" /\ pc = "start"
    /\ \E r \in RouterResponses : raw' = r
    /\ n_calls' = n_calls + 1
    /\ pc' = "parse"
    /\ UNCHANGED <<entry, backend_failed, plan_in, max_repair_attempts,
                   routing_json, routing, shape, stripped, repaired, sent,
                   attempts, validated, plan, result, result2, err>>

(* ollama.generate raises: nothing around the call catches it *)
RouteGenerateRaises ==
    /\ entry = "route_user_request" /\ pc = "start"
    /\ n_calls' = n_calls + 1
    /\ pc' = "raised"
    /\ err' = "TransportError"
    /\ backend_failed' = TRUE
    /\ UNCHANGED <<entry, plan_in, max_repair_attempts, routing_json,
                   routing, shape, raw, stripped, repaired, sent, attempts,
                   validated, plan, result, result2>>

(* the first try: return the parsed value, or enter the repair loop *)
RouteParse ==
    /\ entry = "route_user_request" /\ pc = "parse"
    /\ LET got == _try_parse_routing(raw)
       IN  IF got.ok
           THEN /\ result' = got.value
                /\ validated' = TRUE
                /\ pc' = "returned"
           ELSE /\ pc' = "repair"
                /\ UNCHANGED <<result, validated>>
    /\ UNCHANGED <<entry, backend_failed, plan_in, max_repair_attempts,
                   routing_json, routing, shape, raw, stripped, repaired,
                   sent, attempts, n_calls, plan, result2, err>>

(* a loop that forgets raw = repaired and sends the first text again *)
RouteRepair_resends_original ==
    /\ entry = "route_user_request" /\ pc = "repair"
    /\ InRange(attempts, max_repair_attempts)
    /\ \E r \in RouterResponses :
         LET fixed == Text(Strip(r.chars), r.doc)
             got == _try_parse_routing(fixed)
         IN  /\ sent' = raw
             /\ repaired' = fixed
             /\ IF got.ok
                THEN /\ result' = got.value
                     /\ validated' = TRUE
                     /\ pc' = "returned"
                ELSE UNCHANGED <<result, validated, pc>>
    /\ n_calls' = n_calls + 1
    /\ attempts' = attempts + 1
    /\ UNCHANGED <<entry, backend_failed, plan_in, max_repair_attempts,
                   routing_json, routing, shape, raw, stripped, plan,
                   result2, err>>


(* one iteration of the repair loop whose repair call answers *)
RouteRepair ==
    /\ entry = "route_user_request" /\ pc = "repair"
    /\ InRange(attempts, max_repair_attempts)
    /\ \E r \in RouterResponses :
         LET fixed == Text(Strip(r.chars), r.doc)
             got == _try_parse_routing(fixed)
         IN  /\ sent' = raw
             /\ repaired' = fixed
             /\ IF got.ok
                THEN /\ result' = got.value
                     /\ validated' = TRUE
                     /\ pc' = "returned"
                     /\ UNCHANGED raw
                ELSE /\ raw' = fixed
                     /\ UNCHANGED <<result, validated, pc>>
    /\ n_calls' = n_calls + 1
    /\ attempts' = attempts + 1
    /\ UNCHANGED <<entry, backend_failed, plan_in, max_repair_attempts,
                   routing_json, routing, shape, stripped, plan, result2,
                   err>>

(* a repair call whose failure is swallowed like a failed parse *)
RouteRepairRaises_swallowed ==
    /\ entry = "route_user_request" /\ pc = "repair"
    /\ InRange(attempts, max_repair_attempts)
    /\ sent' = raw
    /\ n_calls' = n_calls + 1
    /\ attempts' = attempts + 1
    /\ backend_failed' = TRUE
    /\ UNCHANGED <<entry, pc, plan_in, max_repair_attempts, routing_json,
                   routing, shape, raw, stripped, repaired, validated, plan,
                   result, result2, err>>


(* the repair call raises inside the except block: it propagates *)
RouteRepairRaises ==
    /\ entry = "route_user_request" /\ pc = "repair"
    /\ InRange(attempts, max_repair_attempts)
    /\ sent' = raw
    /\ n_calls' = n_calls + 1
    /\ attempts' = attempts + 1
    /\ pc' = "raised"
    /\ err' = "TransportError"
    /\ backend_failed' = TRUE
    /\ UNCHANGED <<entry, plan_in, max_repair_attempts, routing_json,
                   routing, shape, raw, stripped, repaired, validated, plan,
                   result, result2>>

(* the loop ran out: the safe default *)
RouteFallback ==
    /\ entry = "route_user_request" /\ pc = "repair"
    /\ ~InRange(attempts, max_repair_attempts)
    /\ result' = RoutingFallback
    /\ pc' = "returned"
    /\ UNCHANGED <<entry, backend_failed, plan_in, max_repair_attempts,
                   routing_json, routing, shape, raw, stripped, repaired,
                   sent, attempts, n_calls, validated, plan, result2, err>>

----------------------------------------------------------------------------
(* plan_user_request *)

(* RoutingResult.model_validate(routing_json), outside any try block, and *)
(* the early return when the router asks for clarification                *)
PlanValidateRouting ==
    /\ entry = "plan_user_request" /\ pc = "start"
    /\ LET got == model_validate(routing_json, "RoutingResult")
       IN  IF ~got.ok
           THEN /\ err' = got.error
                /\ pc' = "raised"
                /\ UNCHANGED <<routing, result>>
           ELSE IF got.value.needs_clarification
           THEN /\ routing' = got.value
                /\ result' = ShortCircuitPlan(got.value)
                /\ pc' = "returned"
                /\ UNCHANGED err
           ELSE /\ routing' = got.value
                /\ pc' = "generate"
                /\ UNCHANGED <<result, err>>
    /\ UNCHANGED <<entry, backend_failed, plan_in, max_repair_attempts,
                   routing_json, shape, raw, stripped, repaired, sent,
                   attempts, n_calls, validated, plan, result2>>

PlanGenerate ==
    /\ entry = "plan_user_request" /\ pc = "generate"
    /\ \E r \in PlanResponses : raw' = r
    /\ n_calls' = n_calls + 1
    /\ pc' = "parse"
    /\ UNCHANGED <<entry, backend_failed, plan_in, max_repair_attempts,
                   routing_json, routing, shape, stripped, repaired, sent,
                   attempts, validated, plan, result, result2, err>>

PlanGenerateRaises ==
    /\ entry = "plan_user_request" /\ pc = "generate"
    /\ n_calls' = n_calls + 1
    /\ pc' = "raised"
    /\ err' = "TransportError"
    /\ backend_failed' = TRUE
    /\ UNCHANGED <<entry, plan_in, max_repair_attempts, routing_json,
                   routing, shape, raw, stripped, repaired, sent, attempts,
                   validated, plan, result, result2>>

PlanParse ==
    /\ entry = "plan_user_request" /\ pc = "parse"
    /\ LET got == _try_parse_plan(raw)
       IN  IF got.ok
           THEN /\ plan' = got.value
                /\ validated' = TRUE
                /\ pc' = "enforce"
           ELSE /\ pc' = "repair"
                /\ UNCHANGED <<plan, validated>>
    /\ UNCHANGED <<entry, backend_failed, plan_in, max_repair_attempts,
                   routing_json, routing, shape, raw, stripped, repaired,
                   sent, attempts, n_calls, result, result2, err>>

PlanRepair ==
    /\ entry = "plan_user_request" /\ pc = "repair"
    /\ InRange(attempts, max_repair_attempts)
    /\ \E r \in PlanResponses :
         LET fixed == Text(Strip(r.chars), r.doc)
             got == _try_parse_plan(fixed)
         IN  /\ sent' = raw
             /\ repaired' = fixed
             /\ IF got.ok
                THEN /\ plan' = got.value
                     /\ validated' = TRUE
                     /\ pc' = "enforce"
                     /\ UNCHANGED raw
                ELSE /\ raw' = fixed
                     /\ UNCHANGED <<plan, validated, pc>>
    /\ n_calls' = n_calls + 1
    /\ attempts' = attempts + 1
    /\ UNCHANGED <<entry, backend_failed, plan_in, max_repair_attempts,
                   routing_json, routing, shape, stripped, result, result2,
                   err>>

PlanRepairRaises ==
    /\ entry = "plan_user_request" /\ pc = "repair"
    /\ InRange(attempts, max_repair_attempts)
    /\ sent' = raw
    /\ n_calls' = n_calls + 1
    /\ attempts' = attempts + 1
    /\ pc' = "raised"
    /\ err' = "TransportError"
    /\ backend_failed' = TRUE
    /\ UNCHANGED <<entry, plan_in, max_repair_attempts, routing_json,
                   routing, shape, raw, stripped, repaired, validated, plan,
                   result, result2>>

(* the for loop's else branch *)
PlanFallbackStep ==
    /\ entry = "plan_user_request" /\ pc = "repair"
    /\ ~InRange(attempts, max_repair_attempts)
    /\ plan' = PlanFallback
    /\ pc' = "enforce"
    /\ UNCHANGED <<entry, backend_failed, plan_in, max_repair_attempts,
                   routing_json, routing, shape, raw, stripped, repaired,
                   sent, attempts, n_calls, validated, result, result2, err>>

(* return enforce_policy(plan, routing); the forced flags are written into *)
(* the plan object itself, which is also what is returned                  *)
PlanEnforce ==
    /\ entry = "plan_user_request" /\ pc = "enforce"
    /\ result' = enforce_policy(plan, routing)
    /\ plan' = IF routing.needs_clarification THEN plan ELSE result'
    /\ pc' = "returned"
    /\ plan_in' = plan
    /\ UNCHANGED <<entry, backend_failed, max_repair_attempts, routing_json,
                   routing, shape, raw, stripped, repaired, sent, attempts,
                   n_calls, validated, result2, err>>

----------------------------------------------------------------------------
(* enforce_policy called on its own, then once more on its own result *)

EnforceOnce ==
    /\ entry = "enforce_policy" /\ pc = "start"
    /\ result' = enforce_policy(plan, routing)
    /\ plan' = IF routing.needs_clarification THEN plan ELSE result'
    /\ pc' = "applied"
    /\ UNCHANGED <<entry, backend_failed, plan_in, max_repair_attempts,
                   routing_json, routing, shape, raw, stripped, repaired,
                   sent, attempts, n_calls, validated, result2, err>>

EnforceTwice ==
    /\ entry = "enforce_policy" /\ pc = "applied"
    /\ result2' = enforce_policy(result, routing)
    /\ plan' = IF routing.needs_clarification THEN plan ELSE result2'
    /\ pc' = "returned"
    /\ UNCHANGED <<entry, backend_failed, plan_in, max_repair_attempts,
                   routing_json, routing, shape, raw, stripped, repaired,
                   sent, attempts, n_calls, validated, result, err>>

----------------------------------------------------------------------------
(* _parse_and_validate called on its own *)

StripFences ==
    /\ entry = "_parse_and_validate" /\ pc = "start"
    /\ stripped' = _strip_code_fences(raw)
    /\ pc' = "stripped"
    /\ UNCHANGED <<entry, backend_failed, plan_in, max_repair_attempts,
                   routing_json, routing, shape, raw, repaired, sent,
                   attempts, n_calls, validated, plan, result, result2, err>>

ParseAndValidate ==
    /\ entry = "_parse_and_validate" /\ pc = "stripped"
    /\ LET got == _try_parse_routing(raw)
       IN  IF got.ok
           THEN /\ result' = got.value
                /\ pc' = "returned"
                /\ UNCHANGED err
           ELSE /\ err' = got.error
                /\ pc' = "raised"
                /\ UNCHANGED result
    /\ UNCHANGED <<entry, backend_failed, plan_in, max_repair_attempts,
                   routing_json, routing, shape, raw, stripped, repaired,
                   sent, attempts, n_calls, validated, plan, result2>>

----------------------------------------------------------------------------

Next ==
    \/ RouteGenerate
    \/ RouteGenerateRaises
    \/ RouteParse
    \/ RouteRepair
    \/ RouteRepairRaises
    \/ RouteFallback
    \/ PlanValidateRouting
    \/ PlanGenerate
    \/ PlanGenerateRaises
    \/ PlanParse
    \/ PlanRepair
    \/ PlanRepairRaises
    \/ PlanFallbackStep
    \/ PlanEnforce
    \/ EnforceOnce
    \/ EnforceTwice
    \/ StripFences
    \/ ParseAndValidate

Spec == Init /\ [][Next]_vars

----------------------------------------------------------------------------
(* What the claims speak of *)

Stages == {"route_user_request", "plan_user_request"}

IsRoutingResult(v) ==
    /\ DOMAIN v = {"domains", "risk", "needs_clarification", "questions", "hints"}
    /\ Len(v.domains) >= 1
    /\ \A k \in 1..Len(v.domains) :
         v.domains[k] \in {"reminders", "mail", "files", "browser", "system",
                           "unknown"}
    /\ v.risk \in {"low", "medium", "high"}
    /\ v.needs_clarification \in BOOLEAN
    /\ DOMAIN v.hints = {"prefer", "mail_default", "require_confirmation"}
    /\ \A k \in 1..Len(v.hints.prefer) :
         v.hints.prefer[k] \in {"shortcuts", "browser", "files_api"}
    /\ v.hints.mail_default \in {"draft", "send", "None"}
    /\ v.hints.require_confirmation \in BOOLEAN

IsPlanResult(v) ==
    /\ DOMAIN v = {"explanation", "actions", "questions"}
    /\ \A k \in 1..Len(v.actions) :
         /\ DOMAIN v.actions[k] = {"tool", "args", "needs_confirmation"}
         /\ v.actions[k].tool \in {"shortcuts.run", "browser.run", "files.apply",
                                   "system.open_app", "pause_for_user"}
         /\ v.actions[k].needs_confirmation \in BOOLEAN

ConfirmationRequired(r) ==
    r.risk \in {"medium", "high"} \/ r.hints.require_confirmation

AllConfirmed(p) ==
    \A k \in 1..Len(p.actions) : p.actions[k].needs_confirmation

ExpectedRoutingFallback ==
    [domains |-> <<"unknown">>,
     risk |-> "medium",
     needs_clarification |-> TRUE,
     questions |-> <<"I'm not sure what you want to do. Could you rephrase in one sentence?">>,
     hints |-> [prefer |-> <<"shortcuts">>, mail_default |-> "draft",
                require_confirmation |-> TRUE]]

ExpectedPlanFallback ==
    [explanation |-> "I couldn't safely create a plan. Please rephrase your request.",
     actions |-> <<>>,
     questions |-> <<"What would you like me to do? Please include any important details like time, person, or file name.">>]

(* C1: whenever the routing result passed to plan_user_request has         *)
(* needs_clarification = true, the returned plan has no actions and at     *)
(* least one question, also when the routing result's question list is     *)
(* empty.                                                                  *)
C1_ClarificationPlanAsksQuestions ==
    (entry = "plan_user_request" /\ pc = "returned"
        /\ routing.needs_clarification)
    => (result.actions = <<>> /\ result.questions # <<>>)

(* C2: when risk is medium or high, or the hints require confirmation,     *)
(* every action of enforce_policy's result, and of every plan returned by  *)
(* plan_user_request, has needs_confirmation = true.                       *)
C2_ConfirmationForced ==
    /\ (entry = "enforce_policy" /\ pc \in {"applied", "returned"}
           /\ ConfirmationRequired(routing))
       => AllConfirmed(result)
    /\ (entry = "plan_user_request" /\ pc = "returned"
           /\ ConfirmationRequired(routing))
       => AllConfirmed(result)

(* a repaired plan whose generator cleared a flag, under low risk with the *)
(* confirmation hint set                                                   *)
C2_Witness ==
    /\ entry = "plan_user_request" /\ pc = "returned"
    /\ validated /\ attempts > 0 /\ repaired.doc = PD_two
    /\ routing.risk = "low" /\ routing.hints.require_confirmation
    /\ Len(result.actions) = 2

(* C3: for a text wrapped in one fenced block, with or without a language  *)
(* tag, _strip_code_fences returns the inner content stripped of           *)
(* surrounding whitespace, and _parse_and_validate ends on the fenced text *)
(* as it does on the inner content.                                        *)
C3_FencedParsesLikeInner ==
    (entry = "_parse_and_validate" /\ shape.fenced
        /\ BT \notin Elems(shape.inner))
    => /\ pc # "start" => stripped.chars = Strip(shape.inner)
       /\ pc \in {"returned", "raised"} =>
            LET plain == _try_parse_routing(Text(shape.inner, shape.doc))
            IN  IF plain.ok THEN pc = "returned" /\ result = plain.value
                ELSE pc = "raised"

(* C4: when the first response and every repair response fail to parse or  *)
(* validate, route_user_request returns exactly the routing fallback and   *)
(* plan_user_request exactly the plan fallback, the policy pass leaving it *)
(* unchanged; each is a valid value of its schema.                         *)
C4_FallbackOnExhaustion ==
    /\ (entry = "route_user_request" /\ pc = "returned" /\ ~validated)
       => /\ result = ExpectedRoutingFallback
          /\ IsRoutingResult(result)
          /\ attempts = max_repair_attempts
    /\ (entry = "plan_user_request" /\ pc = "returned" /\ ~validated
           /\ n_calls > 0)
       => /\ result = ExpectedPlanFallback
          /\ IsPlanResult(result)
          /\ attempts = max_repair_attempts

(* the planner falls back after two failed repairs, under a routing result *)
(* that makes the policy pass force confirmation                           *)
C4_Witness ==
    /\ entry = "plan_user_request" /\ pc = "returned"
    /\ ~validated /\ n_calls = 3 /\ max_repair_attempts = 2
    /\ routing.risk = "high"

(* C5: neither stage ever raises JSONDecodeError or ValidationError,       *)
(* whatever the caller passes (every routing_json included) and whatever   *)
(* the backend answers; what a stage returns is a valid value of its       *)
(* schema.                                                                 *)
C5_NoContentErrorEscapes ==
    /\ entry \in Stages => err \notin {"JSONDecodeError", "ValidationError"}
    /\ (entry = "route_user_request" /\ pc = "returned")
       => IsRoutingResult(result)
    /\ (entry = "plan_user_request" /\ pc = "returned")
       => IsPlanResult(result)

(* C6: every RoutingResult route_user_request returns, from the first      *)
(* response, from a repaired one or as the fallback, has a non-empty       *)
(* domains list with entries among the six domains.                        *)
C6_DomainsNonEmpty ==
    (entry = "route_user_request" /\ pc = "returned")
    => /\ Len(result.domains) >= 1
       /\ \A k \in 1..Len(result.domains) :
            result.domains[k] \in {"reminders", "mail", "files", "browser",
                                   "system", "unknown"}

(* a routing result with two domains parsed from the second repair *)
C6_Witness ==
    /\ entry = "route_user_request" /\ pc = "returned"
    /\ validated /\ attempts = 2
    /\ Len(result.domains) = 2

(* C7: one invocation of a stage calls the backend at most                 *)
(* 1 + max_repair_attempts times: once when the first response validates,  *)
(* 1 + k times when the k-th repair response is the first to validate,     *)
(* 1 + max_repair_attempts times when none does; and no call follows a     *)
(* response that validated.                                                *)
C7_BackendCallsBounded ==
    /\ [](entry \in Stages =>
            /\ n_calls <= 1 + max_repair_attempts
            /\ validated => n_calls = 1 + attempts
            /\ (validated /\ attempts = 0) => n_calls = 1
            /\ (pc = "returned" /\ ~validated /\ n_calls > 0)
               => n_calls = 1 + max_repair_attempts)
    /\ [][validated => n_calls' = n_calls]_vars

(* the first repair validates and the planner returns with one repair      *)
(* attempt left unused                                                     *)
C7_Witness ==
    /\ entry = "plan_user_request" /\ pc = "returned"
    /\ validated /\ n_calls = 2 /\ max_repair_attempts = 2

(* C8: when the routing result passed to plan_user_request has             *)
(* needs_clarification = true, the planner returns without any backend     *)
(* call, with no actions and the routing result's questions as given.      *)
C8_ShortCircuit ==
    (entry = "plan_user_request" /\ pc = "returned"
        /\ routing_json.needs_clarification)
    => /\ n_calls = 0
       /\ result.actions = <<>>
       /\ result.questions =
            IF "questions" \in DOMAIN routing_json
            THEN routing_json.questions ELSE <<>>

C8_Witness ==
    /\ entry = "plan_user_request" /\ pc = "returned"
    /\ routing_json.needs_clarification
    /\ Len(result.questions) = 2

(* C9: enforce_policy applied to its own result, with the same routing     *)
(* result, returns that result again.                                      *)
C9_EnforceIdempotent ==
    (entry = "enforce_policy" /\ pc = "returned") => result2 = result

(* the first pass changed a flag of a two-action plan *)
C9_Witness ==
    /\ entry = "enforce_policy" /\ pc = "returned"
    /\ ~routing.needs_clarification
    /\ Len(result.actions) = 2
    /\ result # plan_in

(* C10: once a backend call of a stage fails at transport level, the stage *)
(* has raised that error: it returned nothing, fallback included, and      *)
(* takes no further step, so makes no further call.                        *)
C10_TransportFailurePropagates ==
    (entry \in Stages /\ backend_failed)
    => /\ pc = "raised"
       /\ err = "TransportError"
       /\ result = NoDoc
       /\ ~ENABLED Next

(* the first repair call fails with one repair attempt left *)
C10_Witness ==
    /\ entry = "route_user_request" /\ backend_failed
    /\ n_calls = 2 /\ max_repair_attempts = 2

(* C11: in the repair loop of both stages the first repair request is      *)
(* given the generator's failing text, which nothing re-binds before, and  *)
(* each later request the output of the repair attempt just before it;     *)
(* a value obtained through repair is parsed from the latest repair        *)
(* output.                                                                 *)
C11_RepairChain ==
    /\ [][(entry \in Stages /\ n_calls >= 1 /\ n_calls' = n_calls + 1)
            => sent' = IF n_calls = 1 THEN raw ELSE repaired]_vars
    /\ [][(entry \in Stages /\ n_calls = 1 /\ n_calls' = 1)
            => raw' = raw]_vars
    /\ [](/\ (entry = "route_user_request" /\ pc = "returned"
                /\ validated /\ attempts > 0)
             => LET got == _try_parse_routing(repaired)
                IN  got.ok /\ result = got.value
          /\ (entry = "plan_user_request" /\ pc = "returned"
                /\ validated /\ attempts > 0)
             => LET got == _try_parse_plan(repaired)
                IN  got.ok /\ plan_in = got.value)

(* the second repair request was given the first repair's output, a text   *)
(* without a document, and its answer validated                            *)
C11_Witness ==
    /\ entry = "route_user_request" /\ pc = "returned"
    /\ validated /\ attempts = 2
    /\ sent.chars = <<"x">>
    /\ raw.chars = <<"x">>
    /\ repaired.doc = RD_multi

(* C12: when needs_clarification is false, enforce_policy leaves the       *)
(* explanation, the questions and the number, order, tool and args of the  *)
(* actions as they were; when moreover risk is low and the hints do not    *)
(* require confirmation, it returns the plan as it was, cleared flags      *)
(* included.                                                               *)
C12_OnlyFlagsChange ==
    ((\/ entry = "enforce_policy" /\ pc \in {"applied", "returned"}
      \/ entry = "plan_user_request" /\ pc = "returned" /\ n_calls > 0)
        /\ ~routing.needs_clarification)
    => /\ result.explanation = plan_in.explanation
       /\ result.questions = plan_in.questions
       /\ Len(result.actions) = Len(plan_in.actions)
       /\ \A k \in 1..Len(plan_in.actions) :
            /\ result.actions[k].tool = plan_in.actions[k].tool
            /\ result.actions[k].args = plan_in.actions[k].args
       /\ (routing.risk = "low" /\ ~routing.hints.require_confirmation)
          => result = plan_in

(* a low-risk plan without the confirmation hint comes back with a flag    *)
(* still cleared                                                           *)
C12_Witness ==
    /\ entry = "plan_user_request" /\ pc = "returned" /\ n_calls > 0
    /\ routing.risk = "low" /\ ~routing.hints.require_confirmation
    /\ Len(result.actions) = 2
    /\ ~result.actions[1].needs_confirmation

(* C13: when needs_clarification is true, enforce_policy returns the fixed *)
(* plan asking for more information, whatever plan it was given and        *)
(* whatever the risk: no actions, and the routing result's questions, or   *)
(* the one default question when there are none.                           *)
C13_ClarificationOverrides ==
    (entry = "enforce_policy" /\ pc \in {"applied", "returned"}
        /\ routing.needs_clarification)
    => /\ result.explanation
            = "I need a bit more information before I can plan this."
       /\ result.actions = <<>>
       /\ result.questions =
            IF routing.questions # <<>> THEN routing.questions
            ELSE <<"Could you clarify what you want to do?">>

(* a two-action plan under high risk and no routing question is replaced   *)
(* by the plan with the default question                                   *)
C13_Witness ==
    /\ entry = "enforce_policy" /\ pc = "applied"
    /\ routing.needs_clarification /\ routing.questions = <<>>
    /\ routing.risk = "high"
    /\ Len(plan_in.actions) = 2
    /\ Len(result.questions) = 1

====
